---- MODULE Spec2Model ----
(***************************************************************************)
(* Verification model of the cliagent-mention VS Code extension            *)
(* (src/src/extension.ts, src/src/codeActionProvider.ts,                    *)
(* src/src/logger.ts, src/unnamed/part_001).                               *)
(*                                                                         *)
(* A JavaScript string is modelled as a sequence of one-character strings, *)
(* so that indexing, substring, replace and concatenation are computed.    *)
(***************************************************************************)
EXTENDS Integers, Sequences, FiniteSets, TLC

\* ------------------------------------------------------------------------
\* Bounds of the model
\* ------------------------------------------------------------------------

\* longest string of the exhaustive part of the classification inputs
MaxLen == 3

\* most path segments below the root of a generated from/to path
MaxSegs == 2

\* ------------------------------------------------------------------------
\* Characters and strings
\* ------------------------------------------------------------------------

BSL == "\\"

SL == "/"

UpperLetters == <<"A","B","C","D","E","F","G","H","I","J","K","L","M",
                  "N","O","P","Q","R","S","T","U","V","W","X","Y","Z">>

LowerLetters == <<"a","b","c","d","e","f","g","h","i","j","k","l","m",
                  "n","o","p","q","r","s","t","u","v","w","x","y","z">>

IsUpper(c) == \E i \in 1..26 : UpperLetters[i] = c

IsLower(c) == \E i \in 1..26 : LowerLetters[i] = c

\* the character class [A-Za-z]
IsLetter(c) == IsUpper(c) \/ IsLower(c)

\* String.prototype.toLowerCase on one character
toLowerCaseChar(c) ==
    IF IsUpper(c) THEN LowerLetters[CHOOSE i \in 1..26 : UpperLetters[i] = c]
    ELSE c

\* String.prototype.toLowerCase
toLowerCase(s) == [i \in 1..Len(s) |-> toLowerCaseChar(s[i])]

\* s.substring(n): the string without its first n characters
substring(s, n) == IF n >= Len(s) THEN <<>> ELSE SubSeq(s, n + 1, Len(s))

\* s.slice(a, b) with 0-based a inclusive, b exclusive
slice(s, a, b) == IF a >= b THEN <<>> ELSE SubSeq(s, a + 1, b)

\* s.replace(/\\/g, '/'): every backslash becomes a forward slash
replaceBackslashes(s) == [i \in 1..Len(s) |-> IF s[i] = BSL THEN SL ELSE s[i]]

\* s.startsWith(p)
StartsWith(s, p) == Len(s) >= Len(p) /\ SubSeq(s, 1, Len(p)) = p

\* the value of an absent (undefined) Uri or string: a sequence that is no
\* string, since every character of a string is one character long
Undefined == <<"undefined">>

\* ------------------------------------------------------------------------
\* Path dialects (extension.ts lines 13-52)
\* ------------------------------------------------------------------------

\* windowsDrivePattern = /^([A-Za-z]):[\\\/]/ tested on a string
windowsDrivePattern(filePath) ==
    /\ Len(filePath) >= 3
    /\ IsLetter(filePath[1])
    /\ filePath[2] = ":"
    /\ filePath[3] \in {BSL, SL}

isWindowsPath(filePath) == windowsDrivePattern(filePath)

\* getWindowsDriveLetter without toLowerCase
getWindowsDriveLetter_keepCase(filePath) ==
    IF windowsDrivePattern(filePath) THEN <<filePath[1]>>
    ELSE Undefined

\* match[1].toLowerCase(), or Undefined without a match
getWindowsDriveLetter(filePath) ==
    IF windowsDrivePattern(filePath) THEN <<toLowerCaseChar(filePath[1])>>
    ELSE Undefined

\* isWslMountPath asking for a character after the mount's separator
isWslMountPath_longer(filePath) ==
    /\ Len(filePath) >= 8
    /\ filePath[1] = SL
    /\ toLowerCaseChar(filePath[2]) = "m"
    /\ toLowerCaseChar(filePath[3]) = "n"
    /\ toLowerCaseChar(filePath[4]) = "t"
    /\ filePath[5] = SL
    /\ IsLetter(filePath[6])
    /\ filePath[7] = SL

\* /^\/mnt\/[a-z]\//i : the i flag makes every letter of the pattern,
\* the literal "mnt" included, match in either case
isWslMountPath(filePath) ==
    /\ Len(filePath) >= 7
    /\ filePath[1] = SL
    /\ toLowerCaseChar(filePath[2]) = "m"
    /\ toLowerCaseChar(filePath[3]) = "n"
    /\ toLowerCaseChar(filePath[4]) = "t"
    /\ filePath[5] = SL
    /\ IsLetter(filePath[6])
    /\ filePath[7] = SL

\* s.replace(/\\/, '/') without the g flag: the first backslash only
replaceFirstBackslash(s) ==
    [i \in 1..Len(s) |->
        IF s[i] = BSL /\ (\A j \in 1..(i - 1) : s[j] # BSL) THEN SL ELSE s[i]]

\* windowsToWslPath replacing the first backslash only
windowsToWslPath_firstOnly(windowsPath) ==
    IF ~windowsDrivePattern(windowsPath) THEN windowsPath
    ELSE LET driveLetter == toLowerCaseChar(windowsPath[1])
             pathWithoutDrive == replaceFirstBackslash(substring(windowsPath, 2))
         IN  <<SL, "m", "n", "t", SL, driveLetter>> \o pathWithoutDrive

windowsToWslPath(windowsPath) ==
    IF ~windowsDrivePattern(windowsPath) THEN windowsPath
    ELSE LET driveLetter == toLowerCaseChar(windowsPath[1])
             pathWithoutDrive == replaceBackslashes(substring(windowsPath, 2))
         IN  <<SL, "m", "n", "t", SL, driveLetter>> \o pathWithoutDrive

\* the dialect the two tests of toRelative assign to a path
classify(raw) ==
    IF isWindowsPath(raw) THEN "NativeWindows"
    ELSE IF isWslMountPath(raw) THEN "WslMount"
    ELSE "NativePosix"

\* ------------------------------------------------------------------------
\* Node.js path module, as called by toRelative (extension.ts lines 84-103)
\* ------------------------------------------------------------------------

\* character of s at 0-based index k (String.prototype.charCodeAt)
At0(s, k) == s[k + 1]

Min(S) == CHOOSE x \in S : \A y \in S : x <= y

Max(S) == CHOOSE x \in S : \A y \in S : x >= y

\* s.split on any character of seps: the pieces, empty ones included
RECURSIVE SplitAcc(_, _, _, _)
SplitAcc(s, i, cur, seps) ==
    IF i > Len(s) THEN <<cur>>
    ELSE IF s[i] \in seps THEN <<cur>> \o SplitAcc(s, i + 1, <<>>, seps)
    ELSE SplitAcc(s, i + 1, Append(cur, s[i]), seps)

Split(s, seps) == SplitAcc(s, 1, <<>>, seps)

\* pieces.join(sep)
RECURSIVE Join(_, _)
Join(pieces, sep) ==
    IF pieces = <<>> THEN <<>>
    ELSE IF Len(pieces) = 1 THEN pieces[1]
    ELSE pieces[1] \o <<sep>> \o Join(Tail(pieces), sep)

\* s.split(sep).join('/')
splitJoin(s, sep) == Join(Split(s, {sep}), SL)

\* normalizeString(path, allowAboveRoot = false, ...): drops empty and "."
\* segments and resolves ".." against the segment before it
RECURSIVE normalizeSegs(_, _)
normalizeSegs(segs, acc) ==
    IF segs = <<>> THEN acc
    ELSE LET seg == Head(segs)
         IN  IF seg = <<>> \/ seg = <<".">> THEN normalizeSegs(Tail(segs), acc)
             ELSE IF seg = <<".", ".">>
                  THEN normalizeSegs(Tail(segs),
                          IF acc = <<>> THEN acc ELSE SubSeq(acc, 1, Len(acc) - 1))
             ELSE normalizeSegs(Tail(segs), Append(acc, seg))

\* path.posix.resolve(p) in a process whose working directory is cwd
posixResolve(p, cwd) ==
    LET full == IF p = <<>> THEN cwd
                ELSE IF p[1] = SL THEN p
                ELSE cwd \o <<SL>> \o p
    IN  <<SL>> \o Join(normalizeSegs(Split(full, {SL}), <<>>), SL)

\* the ".." of the result appended without the separator between them
RECURSIVE DotDots_noSep(_, _)
DotDots_noSep(n, sep) ==
    IF n = 0 THEN <<>> ELSE <<".", ".">> \o DotDots_noSep(n - 1, sep)

\* n copies of ".." joined by sep
RECURSIVE DotDots(_, _)
DotDots(n, sep) ==
    IF n = 0 THEN <<>>
    ELSE IF n = 1 THEN <<".", ".">>
    ELSE <<".", ".", sep>> \o DotDots(n - 1, sep)

\* path.posix.relative, the part after its comparison loop: lastCommonSep
\* is -1 when the loop met no separator
posixRelativeOut(from, to, length, i, lastCommonSep) ==
    LET fromEnd == Len(from)
        toLen == Len(to) - 1
        toIsLonger == i = length /\ toLen > length
        ups == Cardinality({k \in (1 + lastCommonSep + 1)..fromEnd :
                    k = fromEnd \/ At0(from, k) = SL})
    IN  IF toIsLonger /\ At0(to, 1 + i) = SL
            THEN slice(to, 1 + i + 1, Len(to))
        ELSE IF toIsLonger /\ i = 0
            THEN slice(to, 1 + i, Len(to))
        ELSE DotDots(ups, SL) \o slice(to, 1 + lastCommonSep, Len(to))

\* path.posix.relative, where its comparison loop leaves lastCommonSep
posixRelativeLoop(from, to, length, i) ==
    LET fromLen == Len(from) - 1
        toLen == Len(to) - 1
        sepSeen == Max({k \in 0..(i - 1) : At0(from, 1 + k) = SL} \cup {-1})
        fromIsLonger == i = length /\ ~(toLen > length) /\ fromLen > length
    IN  posixRelativeOut(from, to, length, i,
            IF fromIsLonger /\ At0(from, 1 + i) = SL THEN i
            ELSE IF fromIsLonger /\ i = 0 THEN 0
            ELSE sepSeen)

\* path.posix.relative, its comparison loop over length characters
posixRelativeCompare(from, to, length) ==
    posixRelativeLoop(from, to, length,
        \* where the comparison loop stops
        Min({k \in 0..(length - 1) : At0(from, 1 + k) # At0(to, 1 + k)}
            \cup {length}))

\* path.posix.relative on the two resolved paths (fromStart = toStart = 1)
posixRelativeResolved(from, to) ==
    IF from = to THEN <<>>
    ELSE posixRelativeCompare(from, to, Min({Len(from), Len(to)}) - 1)

\* path.posix.relative(from, to)
posixRelative(fromArg, toArg, cwd) ==
    IF fromArg = toArg THEN <<>>
    ELSE posixRelativeResolved(posixResolve(fromArg, cwd), posixResolve(toArg, cwd))

\* the two path separators path.win32 accepts
WinSeps == {BSL, SL}

\* path.win32.resolve(p) in a process whose working directory is cwd, a
\* drive-absolute path such as C:\w.  UNC paths (two leading separators) are
\* outside the inputs of this model.
win32Resolve(p, cwd) ==
    LET hasDevice(q) == Len(q) >= 2 /\ IsLetter(q[1]) /\ q[2] = ":"
        cwdDevice == SubSeq(cwd, 1, 2)
        cwdTail == substring(cwd, 3)
        device == IF p # <<>> /\ hasDevice(p) THEN SubSeq(p, 1, 2) ELSE cwdDevice
        tail ==
            IF p = <<>> THEN cwdTail
            ELSE IF hasDevice(p)
                 THEN IF Len(p) >= 3 /\ p[3] \in WinSeps THEN substring(p, 3)
                      \* drive-relative: the working directory of that drive
                      ELSE IF toLowerCase(cwdDevice) = toLowerCase(device)
                           THEN cwdTail \o <<BSL>> \o substring(p, 2)
                           ELSE substring(p, 2)
            ELSE IF p[1] \in WinSeps THEN substring(p, 1)
            ELSE cwdTail \o <<BSL>> \o p
    IN  device \o <<BSL>> \o Join(normalizeSegs(Split(tail, WinSeps), <<>>), BSL)

\* number of leading backslashes of s
LeadingBackslashes(s) ==
    Min({k \in 0..(Len(s) - 1) : At0(s, k) # BSL} \cup {Len(s)})

\* the end of s once trailing backslashes after index start are trimmed
TrimmedEnd(s, start) ==
    Min({e \in (start + 1)..Len(s) :
            \A k \in e..(Len(s) - 1) : At0(s, k) = BSL} \cup {Len(s)})

\* path.win32.relative, the part after its comparison loop
win32RelativeOut(to, toOrig, fromLen, toStart, toEnd, length, i, sepSeen, lastCommonSep, ups) ==
    LET toLen == toEnd - toStart
        toStart2 == toStart + lastCommonSep
    IN  IF i # length /\ sepSeen = -1 THEN toOrig
        ELSE IF i = length /\ toLen > length /\ At0(to, toStart + i) = BSL
            THEN slice(toOrig, toStart + i + 1, Len(toOrig))
        ELSE IF i = length /\ toLen > length /\ i = 2
            THEN slice(toOrig, toStart + i, Len(toOrig))
        ELSE IF ups > 0
            THEN DotDots(ups, BSL) \o slice(toOrig, toStart2, toEnd)
        ELSE IF toStart2 < Len(toOrig) /\ At0(toOrig, toStart2) = BSL
            THEN slice(toOrig, toStart2 + 1, toEnd)
        ELSE slice(toOrig, toStart2, toEnd)

\* path.win32.relative, the ".." its second loop generates
win32RelativeUps(from, to, toOrig, fromStart, fromEnd, toStart, toEnd, length, i, sepSeen, lastCommonSep) ==
    win32RelativeOut(to, toOrig, fromEnd - fromStart, toStart, toEnd, length, i,
        sepSeen, lastCommonSep,
        Cardinality({k \in (fromStart + lastCommonSep + 1)..fromEnd :
            k = fromEnd \/ At0(from, k) = BSL}))

\* path.win32.relative, where its comparison loop leaves lastCommonSep
win32RelativeSep(from, to, toOrig, fromStart, fromEnd, toStart, toEnd, length, i, sepSeen) ==
    LET fromLen == fromEnd - fromStart
        afterFrom ==
            IF fromLen > length
            THEN IF At0(from, fromStart + i) = BSL THEN i
                 ELSE IF i = 2 THEN 3
                 ELSE sepSeen
            ELSE sepSeen
    IN  win32RelativeUps(from, to, toOrig, fromStart, fromEnd, toStart, toEnd,
            length, i, sepSeen,
            IF i # length THEN sepSeen
            ELSE IF afterFrom = -1 THEN 0 ELSE afterFrom)

\* path.win32.relative, its comparison loop stopping at i
win32RelativeLoop(from, to, toOrig, fromStart, fromEnd, toStart, toEnd, length, i) ==
    win32RelativeSep(from, to, toOrig, fromStart, fromEnd, toStart, toEnd, length, i,
        Max({k \in 0..(i - 1) : At0(from, fromStart + k) = BSL} \cup {-1}))

\* path.win32.relative once both paths are trimmed
win32RelativeTrimmed(from, to, toOrig, fromStart, fromEnd, toStart, toEnd, length) ==
    win32RelativeLoop(from, to, toOrig, fromStart, fromEnd, toStart, toEnd, length,
        Min({k \in 0..(length - 1) :
                At0(from, fromStart + k) # At0(to, toStart + k)}
            \cup {length}))

\* path.win32.relative, trimming the trailing backslashes
win32RelativeEnds(from, to, toOrig, fromStart, fromEnd, toStart, toEnd) ==
    win32RelativeTrimmed(from, to, toOrig, fromStart, fromEnd, toStart, toEnd,
        Min({fromEnd - fromStart, toEnd - toStart}))

\* path.win32.relative, trimming the leading backslashes
win32RelativeStarts(from, to, toOrig, fromStart, toStart) ==
    win32RelativeEnds(from, to, toOrig, fromStart, TrimmedEnd(from, fromStart),
        toStart, TrimmedEnd(to, toStart))

\* path.win32.relative on the two lower-cased resolved paths
win32RelativeLowered(from, to, toOrig) ==
    IF from = to THEN <<>>
    ELSE win32RelativeStarts(from, to, toOrig,
            LeadingBackslashes(from), LeadingBackslashes(to))

\* path.win32.relative on the two resolved paths
win32RelativeResolved(fromOrig, toOrig) ==
    IF fromOrig = toOrig THEN <<>>
    ELSE win32RelativeLowered(toLowerCase(fromOrig), toLowerCase(toOrig), toOrig)

\* path.win32.relative(from, to)
win32Relative(fromArg, toArg, cwd) ==
    IF fromArg = toArg THEN <<>>
    ELSE win32RelativeResolved(win32Resolve(fromArg, cwd), win32Resolve(toArg, cwd))

\* ------------------------------------------------------------------------
\* toRelative (extension.ts lines 57-104)
\* ------------------------------------------------------------------------

\* pathNative.sep of the host
pathNativeSep(h) == IF h.os = "win32" THEN BSL ELSE SL

\* pathNative.relative answering "." for two equal paths
pathNativeRelative_dot(h, from, to) ==
    IF from = to THEN <<".">>
    ELSE IF h.os = "win32" THEN win32Relative(from, to, h.cwd)
    ELSE posixRelative(from, to, h.cwd)

\* pathNative.relative of the host
pathNativeRelative(h, from, to) ==
    IF h.os = "win32" THEN win32Relative(from, to, h.cwd)
    ELSE posixRelative(from, to, h.cwd)

\* whether toRelative returns at its different-drives test (lines 67-74)
differentDrives(fromPath, toPath) ==
    /\ isWindowsPath(fromPath) /\ isWindowsPath(toPath)
    /\ getWindowsDriveLetter(fromPath) # Undefined
    /\ getWindowsDriveLetter(toPath) # Undefined
    /\ getWindowsDriveLetter(fromPath) # getWindowsDriveLetter(toPath)

\* toRelative without its reverse case (a Windows cwd and a WSL file)
toRelative_noReverse(from, to, h) ==
    IF from = Undefined \/ to = Undefined THEN Undefined
    ELSE IF differentDrives(from, to) THEN to
    ELSE IF isWslMountPath(from) /\ isWindowsPath(to)
         THEN posixRelative(from, windowsToWslPath(to), h.cwd)
    ELSE LET relativePath == pathNativeRelative(h, from, to)
         IN  IF isWindowsPath(from) THEN relativePath
             ELSE splitJoin(relativePath, pathNativeSep(h))

\* from and to are the fsPath of the two Uris, or Undefined for an absent Uri
toRelative(from, to, h) ==
    IF from = Undefined \/ to = Undefined THEN Undefined
    ELSE IF differentDrives(from, to) THEN to
    ELSE IF isWslMountPath(from) /\ isWindowsPath(to)
         THEN posixRelative(from, windowsToWslPath(to), h.cwd)
    ELSE IF isWindowsPath(from) /\ isWslMountPath(to)
         THEN posixRelative(windowsToWslPath(from), to, h.cwd)
    ELSE LET relativePath == pathNativeRelative(h, from, to)
         IN  IF isWindowsPath(from) THEN relativePath
             ELSE splitJoin(relativePath, pathNativeSep(h))

\* ------------------------------------------------------------------------
\* Inputs of the path functions
\* ------------------------------------------------------------------------

\* every string over alphabet of length at most n
StringsUpTo(alphabet, n) == UNION {[1..k -> alphabet] : k \in 0..n}

ClassifyAlphabet == {SL, BSL, ":", "c", "C", "m", "1"}

ClassifyTails == {<<>>, <<"a", "\\", "B", "/", "c", "\\">>, <<"/", "m", "n", "t", "/", "c", "/", "x">>}

\* a /mnt/ path and every string one substituted character away from it
WslBase == <<"/", "m", "n", "t", "/", "c", "/", "a">>

MutationChars == {SL, BSL, ":", "m", "M", "N", "T", "c", "C", "1"}

WslMutations ==
    {[WslBase EXCEPT ![i] = c] : i \in 1..Len(WslBase), c \in MutationChars}
    \cup {[[WslBase EXCEPT ![2] = c] EXCEPT ![6] = d] : c, d \in MutationChars}
    \cup {SubSeq(WslBase, 1, k) : k \in 0..Len(WslBase)}

ClassifyInputs ==
    {p \o t : p \in StringsUpTo(ClassifyAlphabet, MaxLen), t \in ClassifyTails}
    \cup WslMutations

\* the paths of the relative-path harness: a root of one of the three
\* dialects, then at most MaxSegs segments joined by the root's separator
SegNames == {<<"a">>, <<"A">>, <<"b">>}

SegSeqs == UNION {[1..k -> SegNames] : k \in 0..MaxSegs}

PathRoots ==
    { [root |-> <<SL>>, sep |-> SL],
      [root |-> <<"/", "m", "n", "t", "/", "c", "/">>, sep |-> SL],
      [root |-> <<"/", "m", "n", "t", "/", "C", "/">>, sep |-> SL],
      [root |-> <<"/", "m", "n", "t", "/", "d", "/">>, sep |-> SL],
      [root |-> <<"c", ":", BSL>>, sep |-> BSL],
      [root |-> <<"C", ":", BSL>>, sep |-> BSL],
      [root |-> <<"d", ":", BSL>>, sep |-> BSL],
      [root |-> <<"c", ":", SL>>, sep |-> SL] }

\* the examples of the README and of the specification
ExWslCwd == <<"/", "m", "n", "t", "/", "c", "/", "h", "o", "m", "e", "/", "x", "/", "p", "r", "o", "j">>

ExWinFile == <<"C", ":", "\\", "h", "o", "m", "e", "\\", "x", "\\", "n", "o", "t", "e", ".", "t", "x", "t">>

ExPosixCwd == <<"/", "a", "/", "b", "/", "c">>

ExPosixFile == <<"/", "a", "/", "d">>

ExReadmeCwd == <<"/", "h", "o", "m", "e", "/", "t", "e", "s", "t", "/", "n", "o", "t", "e", "p", "a", "d", "/", "i", "s", "s", "u", "e", "/">>

ExReadmeFile == <<"/", "h", "o", "m", "e", "/", "t", "e", "s", "t", "/", "p", "r", "o", "j", "e", "c", "t", "/", "s", "o", "u", "r", "c", "e", "/", "d", "i", "s", "t", "/", "t", "e", "s", "t", ".", "j", "s">>

ExWinCwd == <<"C", ":", "\\", "U", "s", "e", "r", "s", "\\", "x", "\\", "p", "r", "o", "j", "\\", "s", "r", "c">>

ExWinNote == <<"C", ":", "\\", "U", "s", "e", "r", "s", "\\", "x", "\\", "n", "o", "t", "e", ".", "t", "x", "t">>

ExOtherDriveCwd == <<"E", ":", "\\", "w", "o", "r", "k">>

ExDataFile == <<"C", ":", "\\", "d", "a", "t", "a", "\\", "f", ".", "t", "x", "t">>

\* /mnt/c without a trailing separator, the empty string, a relative name
\* (the fsPath of an untitled document), a POSIX name holding a backslash
\* and a path with a '..' segment
OddPaths ==
    { <<"/", "m", "n", "t", "/", "c">>, <<>>, <<"a">>, <<SL, "a", BSL, "b">>,
      <<SL, "a", SL, ".", ".", SL, "b">> }

ToPaths ==
    {r.root \o Join(segs, r.sep) : r \in PathRoots, segs \in SegSeqs}
    \cup {ExWinFile, ExPosixFile, ExReadmeFile, ExWinNote, ExDataFile}
    \cup OddPaths \cup {Undefined}

\* a working directory may be reported with a trailing separator
FromPaths ==
    {r.root \o Join(segs, r.sep) : r \in PathRoots, segs \in SegSeqs}
    \cup {r.root \o Join(segs, r.sep) \o <<r.sep>> :
            r \in PathRoots, segs \in SegSeqs \ {<<>>}}
    \cup {ExWslCwd, ExPosixCwd, ExReadmeCwd, ExWinCwd, ExOtherDriveCwd}
    \cup OddPaths \cup {Undefined}

\* the extension host: its platform and process.cwd()
Hosts == { [os |-> "posix", cwd |-> <<"/", "w">>],
           [os |-> "win32", cwd |-> <<"C", ":", "\\", "w">>] }

\* no call made yet: no string either
NotCalled == <<"not called">>

NoDialect == "none"

\* ------------------------------------------------------------------------
\* State
\* ------------------------------------------------------------------------

VARIABLES
    arg,        \* the string handed to the dialect functions
    dialect,    \* the dialect computed for arg, or NoDialect
    wslOut,     \* windowsToWslPath(arg), or NotCalled
    fromPath,   \* from.fsPath of a toRelative call, or Undefined
    toPath,     \* to.fsPath of a toRelative call, or Undefined
    host,       \* the extension host of the call
    relResult   \* what toRelative returned, or NotCalled

pathVars == <<arg, dialect, wslOut, fromPath, toPath, host, relResult>>

VARIABLES
    activated,      \* whether activate() has run
    config,         \* the 'cliagent-mention' section of the settings store
    prefixString,   \* extension.ts line 10
    suffixString,   \* extension.ts line 11
    loggerLevel,    \* Logger._logLevel
    last,           \* the most recent handler run: what it was given
    channel,        \* what that run forwarded to the output channel
    popups,         \* the information, warning and error messages that
                    \* run showed
    terminalInput,  \* the sendText calls of that run
    terminalShown,  \* the terminal.show() calls of that run
    terminalsCreated, \* the createTerminal calls of that run
    terminalCalls   \* the sendText and show calls of that run that
                    \* returned, in the order they were made

sysVars == <<activated, config, prefixString, suffixString, loggerLevel,
             last, channel, popups, terminalInput, terminalShown,
             terminalsCreated, terminalCalls>>

vars == <<pathVars, sysVars>>

ClassifyIdle ==
    /\ arg = <<>>
    /\ dialect = NoDialect
    /\ wslOut = NotCalled

\* vscode.LogLevel
LogLevelOff == 0

LogLevelTrace == 1

LogLevelDebug == 2

LogLevelInfo == 3

LogLevelWarning == 4

LogLevelError == 5

\* no handler has run
NoRun == [kind |-> "none"]

\* the extension before activation, with no setting configured
SystemIdle ==
    /\ activated = FALSE
    /\ config = [logLevel |-> Undefined, prefixString |-> Undefined,
                 suffixString |-> Undefined]
    /\ prefixString = <<"@">>
    /\ suffixString = <<":">>
    /\ loggerLevel = LogLevelInfo
    /\ last = NoRun
    /\ channel = <<>>
    /\ popups = <<>>
    /\ terminalInput = <<>>
    /\ terminalShown = <<>>
    /\ terminalsCreated = <<>>
    /\ terminalCalls = <<>>

RelativeIdle ==
    /\ fromPath = Undefined
    /\ toPath = Undefined
    /\ host = CHOOSE h \in Hosts : h.os = "posix"
    /\ relResult = NotCalled

\* ------------------------------------------------------------------------
\* The dialect functions applied to one string
\* ------------------------------------------------------------------------

InitClassify ==
    /\ arg \in ClassifyInputs
    /\ dialect = NoDialect
    /\ wslOut = NotCalled
    /\ RelativeIdle
    /\ SystemIdle

CallClassify ==
    /\ dialect = NoDialect
    /\ dialect' = classify(arg)
    /\ UNCHANGED <<arg, wslOut, fromPath, toPath, host, relResult>>
    /\ UNCHANGED sysVars

CallWindowsToWslPath ==
    /\ wslOut = NotCalled
    /\ wslOut' = windowsToWslPath(arg)
    /\ UNCHANGED <<arg, dialect, fromPath, toPath, host, relResult>>
    /\ UNCHANGED sysVars

NextClassify == CallClassify \/ CallWindowsToWslPath

SpecClassify == InitClassify /\ [][NextClassify]_vars

\* ------------------------------------------------------------------------
\* toRelative applied to one pair of paths on one host
\* ------------------------------------------------------------------------

InitRelative ==
    /\ fromPath \in FromPaths
    /\ toPath \in ToPaths
    /\ host \in Hosts
    /\ relResult = NotCalled
    /\ ClassifyIdle
    /\ SystemIdle

CallToRelative ==
    /\ relResult = NotCalled
    /\ relResult' = toRelative(fromPath, toPath, host)
    /\ UNCHANGED <<arg, dialect, wslOut, fromPath, toPath, host>>
    /\ UNCHANGED sysVars

NextRelative == CallToRelative

SpecRelative == InitRelative /\ [][NextRelative]_vars

\* the same calls on a Windows extension host only
InitRelativeWin32 == InitRelative /\ host.os = "win32"

SpecRelativeWin32 == InitRelativeWin32 /\ [][NextRelative]_vars

\* ------------------------------------------------------------------------
\* Vocabulary of the properties: the dialects and the segment-wise relative
\* path as the specification words them
\* ------------------------------------------------------------------------

Letters == {UpperLetters[i] : i \in 1..26} \cup {LowerLetters[i] : i \in 1..26}

Chars(s) == {s[i] : i \in 1..Len(s)}

MntPrefix == <<SL, "m", "n", "t", SL>>

\* starts with a letter, ':' and then '\' or '/'
StartsWithDrive(s) ==
    Len(s) >= 3 /\ s[1] \in Letters /\ s[2] = ":" /\ s[3] \in {BSL, SL}

\* starts with '/mnt/<one letter>/'
StartsWithMnt(s) ==
    Len(s) >= 7 /\ SubSeq(s, 1, 5) = MntPrefix /\ s[6] \in Letters /\ s[7] = SL

DialectOf(s) ==
    IF StartsWithDrive(s) THEN "NativeWindows"
    ELSE IF StartsWithMnt(s) THEN "WslMount"
    ELSE "NativePosix"

\* the same letter, ignoring case
SameLetter(c, d) ==
    \E i \in 1..26 : {c, d} \subseteq {UpperLetters[i], LowerLetters[i]}

\* the non-empty segments of s between separators
Segments(s, seps) == SelectSeq(Split(s, seps), LAMBDA seg : seg # <<>>)

\* length of the longest common prefix of two segment lists, the segments
\* compared after key is applied to them
CommonLen(a, b, key(_)) ==
    Max({k \in 0..(IF Len(a) < Len(b) THEN Len(a) ELSE Len(b)) :
            \A j \in 1..k : key(a[j]) = key(b[j])})

\* one ".." for each segment of a after the common prefix, then the
\* segments of b after it
RelativeSegments(a, b, key(_)) ==
    LET k == CommonLen(a, b, key)
    IN  [j \in 1..(Len(a) - k) |-> <<".", ".">>] \o SubSeq(b, k + 1, Len(b))

Exactly(seg) == seg

\* the POSIX segment-relative path from one '/'-separated path to another
SegmentRelativePosix(from, to) ==
    Join(RelativeSegments(Segments(from, {SL}), Segments(to, {SL}), Exactly), SL)

RelativeCalled ==
    relResult # NotCalled /\ fromPath # Undefined /\ toPath # Undefined

\* ------------------------------------------------------------------------
\* C1
\* ------------------------------------------------------------------------

\* C1: every string gets exactly one dialect: NativeWindows iff it starts
\* with a letter, ':' and a separator; WslMount iff it starts with
\* '/mnt/<one letter>/'; NativePosix otherwise; never both of the first two.
C1_ClassificationAsClaimed ==
    dialect # NoDialect =>
        /\ dialect = DialectOf(arg)
        /\ ~(isWindowsPath(arg) /\ isWslMountPath(arg))

\* ------------------------------------------------------------------------
\* C2
\* ------------------------------------------------------------------------

\* C2: for a NativeWindows path the output of windowsToWslPath is '/mnt/',
\* the lowercased drive letter, then every character after 'X:' in place,
\* with each backslash turned into a forward slash; any other input comes
\* back unchanged.
C2_WindowsToWsl ==
    wslOut # NotCalled =>
        IF StartsWithDrive(arg)
        THEN /\ Len(wslOut) = Len(arg) + 4
             /\ SubSeq(wslOut, 1, 5) = MntPrefix
             /\ IsLower(wslOut[6]) /\ SameLetter(wslOut[6], arg[1])
             /\ \A i \in 3..Len(arg) :
                    wslOut[i + 4] = (IF arg[i] = BSL THEN SL ELSE arg[i])
        ELSE wslOut = arg

\* an upper-case drive and two backslashes after the drive were converted
C2_Witness ==
    /\ wslOut # NotCalled
    /\ StartsWithDrive(arg)
    /\ IsUpper(arg[1])
    /\ Cardinality({i \in 3..Len(arg) : arg[i] = BSL}) >= 2
    /\ \E i \in 4..Len(arg) : IsUpper(arg[i])

\* ------------------------------------------------------------------------
\* C3
\* ------------------------------------------------------------------------

\* C3: with both paths NativeWindows, toRelative returns the 'to' path as
\* given when the drive letters differ ignoring case, and does not when they
\* are the same letter.
C3_CrossDrive ==
    (RelativeCalled /\ StartsWithDrive(fromPath) /\ StartsWithDrive(toPath)) =>
        IF SameLetter(fromPath[1], toPath[1])
        THEN relResult # toPath
        ELSE relResult = toPath

\* E:\work to C:\data\f.txt passed through, backslashes kept
C3_Witness ==
    /\ fromPath = ExOtherDriveCwd
    /\ toPath = ExDataFile
    /\ relResult = ExDataFile

\* ------------------------------------------------------------------------
\* C4
\* ------------------------------------------------------------------------

\* C4: with one side WslMount and the other NativeWindows, the result is
\* the POSIX segment-relative path between the WslMount side and the
\* windowsToWslPath conversion of the NativeWindows side.
C4_WslWindows ==
    RelativeCalled =>
        /\ (StartsWithMnt(fromPath) /\ StartsWithDrive(toPath)) =>
              relResult = SegmentRelativePosix(fromPath, windowsToWslPath(toPath))
        /\ (StartsWithDrive(fromPath) /\ StartsWithMnt(toPath)) =>
              relResult = SegmentRelativePosix(windowsToWslPath(fromPath), toPath)

\* /mnt/c/home/x/proj to C:\home\x\note.txt gave ../note.txt
C4_Witness ==
    /\ fromPath = ExWslCwd
    /\ toPath = ExWinFile
    /\ relResult = <<".", ".", "/", "n", "o", "t", "e", ".", "t", "x", "t">>

\* ------------------------------------------------------------------------
\* C5
\* ------------------------------------------------------------------------

\* whether the call is the cross-drive passthrough
CrossDrivePair ==
    /\ StartsWithDrive(fromPath) /\ StartsWithDrive(toPath)
    /\ ~SameLetter(fromPath[1], toPath[1])

\* C5: a relative result uses the separator of the 'from' dialect: no
\* forward slash when from is NativeWindows, and no backslash that the 'to'
\* path did not already hold when from is NativePosix or WslMount, on
\* either host.
C5_SeparatorAsClaimed ==
    (RelativeCalled /\ ~CrossDrivePair) =>
        IF StartsWithDrive(fromPath)
        THEN SL \notin Chars(relResult)
        ELSE BSL \in Chars(relResult) => BSL \in Chars(toPath)

\* ------------------------------------------------------------------------
\* C6
\* ------------------------------------------------------------------------

\* the separators of a dialect
SepsOf(d) == IF d = "NativeWindows" THEN {BSL, SL} ELSE {SL}

SameDialectPair ==
    /\ DialectOf(fromPath) = DialectOf(toPath)
    /\ StartsWithDrive(fromPath) => SameLetter(fromPath[1], toPath[1])

HostSeps(h) == IF h.os = "win32" THEN {BSL, SL} ELSE {SL}

\* the host's path library compares segments ignoring case on Windows
HostKey(seg) == IF host.os = "win32" THEN toLowerCase(seg) ELSE seg

\* absolute for its dialect: a drive root, or a single leading '/'
IsAbsolute(s) ==
    \/ StartsWithDrive(s)
    \/ Len(s) >= 1 /\ s[1] = SL /\ ~(Len(s) >= 2 /\ s[2] \in {SL, BSL})

NoDotSegments(s) ==
    \A j \in 1..Len(Segments(s, {SL, BSL})) :
        Segments(s, {SL, BSL})[j] \notin {<<".">>, <<".", ".">>}

C6_Covered ==
    /\ RelativeCalled /\ SameDialectPair
    /\ IsAbsolute(fromPath) /\ IsAbsolute(toPath)
    /\ NoDotSegments(fromPath) /\ NoDotSegments(toPath)

C7_SelfAndAbsent ==
    relResult # NotCalled =>
        /\ (fromPath = toPath /\ fromPath # Undefined) => relResult = <<>>
        /\ relResult = Undefined => (fromPath = Undefined \/ toPath = Undefined)

\* a NativeWindows path with segments was relativized against itself
C7_Witness ==
    /\ relResult = <<>>
    /\ fromPath = toPath
    /\ fromPath # Undefined
    /\ StartsWithDrive(fromPath)
    /\ Len(Segments(fromPath, {BSL, SL})) >= 3

\* ------------------------------------------------------------------------
\* Logger (logger.ts) and updateLogLevel (config.ts, src/unnamed/part_001)
\* ------------------------------------------------------------------------

\* the vscode.LogLevel each Logger method compares _logLevel with
MethodLevel(method) ==
    CASE method = "trace" -> LogLevelTrace
      [] method = "debug" -> LogLevelDebug
      [] method = "info" -> LogLevelInfo
      [] method = "warn" -> LogLevelWarning
      [] method = "error" -> LogLevelError

\* a message: its fixed text and the value interpolated into it
Msg(text, value) == [text |-> text, value |-> value]

\* vscode.window.showInformationMessage / showWarningMessage /
\* showErrorMessage: the kind of the popup and its message
Popup(kind, text, value) == [kind |-> kind, msg |-> Msg(text, value)]

\* Logger.trace / debug / info / warn / error with _logLevel = level: the
\* entries the call forwards to the output channel
LoggerCall(level, method, msg) ==
    IF level <= MethodLevel(method) THEN <<[method |-> method, msg |-> msg]>>
    ELSE <<>>

\* config.get<string>(key, defaultValue) on a stored value
configGet(stored, defaultValue) ==
    IF stored = Undefined THEN defaultValue ELSE stored

\* the level updateLogLevel hands to logger.setLogLevel
updateLogLevel(stored) ==
    LET logLevel == toLowerCase(configGet(stored, <<"d", "e", "b", "u", "g">>))
    IN  CASE logLevel = <<"o", "f", "f">> -> LogLevelOff
          [] logLevel = <<"t", "r", "a", "c", "e">> -> LogLevelTrace
          [] logLevel = <<"d", "e", "b", "u", "g">> -> LogLevelDebug
          [] logLevel = <<"i", "n", "f", "o">> -> LogLevelInfo
          [] logLevel = <<"w", "a", "r", "n">> -> LogLevelWarning
          [] logLevel = <<"e", "r", "r", "o", "r">> -> LogLevelError
          [] OTHER -> LogLevelDebug

\* ------------------------------------------------------------------------
\* The mention commands (extension.ts lines 107-193)
\* ------------------------------------------------------------------------

\* vscode.window.activeTerminal / activeTextEditor when there is none
NoTerminal == [none |-> TRUE]

NoEditor == [none |-> TRUE]

Digits == <<"0", "1", "2", "3", "4", "5", "6", "7", "8", "9">>

\* `${n}` for a non-negative integer n
RECURSIVE numberToString(_)
numberToString(n) ==
    IF n < 10 THEN <<Digits[n + 1]>>
    ELSE numberToString(n \div 10) \o <<Digits[(n % 10) + 1]>>

TerminalCwds == {<<"/", "a", "/", "b">>}

EditorFiles == {<<"/", "a", "/", "b">>, <<"/", "a", "/", "c", ".", "j", "s">>}

\* returns the relative path (or Undefined) and the log entries forwarded
getRelativePathWithTerminal(editor, terminal, level, h) ==
    IF terminal = NoTerminal
    THEN [value |-> Undefined,
          logs |-> LoggerCall(level, "info",
              Msg("No active terminal found. Please open a terminal and try again.", <<>>))]
    ELSE IF editor = NoEditor
    THEN [value |-> Undefined,
          logs |-> LoggerCall(level, "info",
              Msg("No active text editor found. Please open a file and try again.", <<>>))]
    ELSE IF terminal.cwd = Undefined
    THEN [value |-> Undefined,
          logs |-> LoggerCall(level, "info",
              Msg("Unable to get terminal path. Shell integration may not be available.", <<>>))]
    ELSE IF editor.uri = Undefined
    THEN [value |-> Undefined,
          logs |-> LoggerCall(level, "debug", Msg("Current terminal path: ", terminal.cwd))
                   \o LoggerCall(level, "info",
              Msg("No active text editor found. Please open a file and try again.", <<>>))]
    ELSE [value |-> toRelative(terminal.cwd, editor.uri, h),
          logs |-> LoggerCall(level, "debug", Msg("Current terminal path: ", terminal.cwd))
                   \o LoggerCall(level, "debug", Msg("Active file path: ", editor.uri))]

\* the range after the marker: one number, or two joined by '-'
lineRange(startLine, endLine) ==
    IF startLine = endLine THEN numberToString(startLine)
    ELSE numberToString(startLine) \o <<"-">> \o numberToString(endLine)

getClaudeCodeFormatLineSelected(startLine, endLine) ==
    <<"#", "L">> \o lineRange(startLine, endLine)

\* the Codex format reading the configured suffix instead of ':'
getCodexFormatLineSelected_configured(startLine, endLine) ==
    suffixString \o lineRange(startLine, endLine)

getCodexFormatLineSelected(startLine, endLine) ==
    <<":">> \o lineRange(startLine, endLine)

getCustomFormatLineSelected(startLine, endLine) ==
    suffixString \o lineRange(startLine, endLine)

\* the function each command hands to setMentionStrings (lines 251-261)
mentionFormatedFunc(mode, startLine, endLine) ==
    CASE mode = "codex" -> getCodexFormatLineSelected(startLine, endLine)
      [] mode = "claudecode" -> getClaudeCodeFormatLineSelected(startLine, endLine)
      [] mode = "custom" -> getCustomFormatLineSelected(startLine, endLine)

\* the text built with the selection test left out
mentionedText_always(mode, editor, relativePath) ==
    prefixString \o relativePath
        \o mentionFormatedFunc(mode, editor.selection.start + 1,
                               editor.selection.end + 1)
        \o <<" ">>

\* mentionedText of setMentionStrings (lines 175-182)
mentionedText(mode, editor, relativePath) ==
    prefixString \o relativePath
        \o (IF editor.selection.isEmpty = FALSE
            THEN mentionFormatedFunc(mode, editor.selection.start + 1,
                                     editor.selection.end + 1)
            ELSE <<>>)
        \o <<" ">>

\* relativePath === undefined: the empty string passes
isFalsy_undefinedOnly(str) == str = Undefined

\* !relativePath: undefined and the empty string are both falsy
isFalsy(str) == str = Undefined \/ str = <<>>

\* setMentionStrings from line 165 on: r is what getRelativePathWithTerminal
\* returned and logged
setMentionStringsWith(mode, editor, terminal, r) ==
    /\ activated
    /\ last' = [kind |-> "mention", mode |-> mode, editor |-> editor,
                terminal |-> terminal, relativePath |-> r.value]
    /\ IF isFalsy(r.value)
       THEN /\ channel' = r.logs \o LoggerCall(loggerLevel, "warn",
                              Msg("Unable to compute relative path.", <<>>))
            /\ popups' = <<>>
            /\ terminalInput' = <<>>
            /\ terminalShown' = <<>>
            /\ terminalsCreated' = <<>>
            /\ terminalCalls' = <<>>
       ELSE /\ terminalInput' = <<[terminal |-> terminal,
                                   text |-> mentionedText(mode, editor, r.value),
                                   addNewLine |-> FALSE]>>
            /\ channel' = r.logs
                    \o LoggerCall(loggerLevel, "debug",
                          Msg("Relative path from terminal to file: ", r.value))
                    \o LoggerCall(loggerLevel, "debug",
                          Msg("codex mentionedText: ", terminalInput'[1].text))
            /\ popups' = IF loggerLevel <= LogLevelTrace
                         THEN <<Popup("information", "", terminalInput'[1].text)>>
                         ELSE <<>>
            /\ terminalShown' = <<terminal>>
            /\ terminalsCreated' = <<>>
            /\ terminalCalls' = <<[op |-> "sendText", terminal |-> terminal,
                                  text |-> terminalInput'[1].text,
                                  addNewLine |-> FALSE],
                                 [op |-> "show", terminal |-> terminal]>>
    /\ UNCHANGED <<activated, config, prefixString, suffixString, loggerLevel>>
    /\ UNCHANGED pathVars

setMentionStrings(mode, editor, terminal) ==
    setMentionStringsWith(mode, editor, terminal,
        getRelativePathWithTerminal(editor, terminal, loggerLevel, host))

\* ------------------------------------------------------------------------
\* activate and the configuration listeners (extension.ts lines 198-246)
\* ------------------------------------------------------------------------

Activate ==
    /\ ~activated
    /\ activated' = TRUE
    /\ loggerLevel' = updateLogLevel(config.logLevel)
    /\ prefixString' = configGet(config.prefixString, <<"@">>)
    /\ suffixString' = configGet(config.suffixString, <<":">>)
    /\ channel' = LoggerCall(loggerLevel', "info",
                      Msg("Initial configuration loaded - Prefix, Suffix: ",
                          <<prefixString', suffixString'>>))
                  \o LoggerCall(loggerLevel', "info",
                      Msg("CodeActionProvider registered successfully", <<>>))
    /\ last' = [kind |-> "activate"]
    /\ popups' = <<>>
    /\ terminalInput' = <<>>
    /\ terminalShown' = <<>>
    /\ terminalsCreated' = <<>>
    /\ terminalCalls' = <<>>
    /\ UNCHANGED config
    /\ UNCHANGED pathVars

\* the settings the three listeners test; a change event affects some of
\* them, or none when other settings changed
ListenedKeys == {"logLevel", "prefixString", "suffixString"}

\* the prefix listener testing the suffix key
prefixListenerFires_wrongKey(affected) == "suffixString" \in affected

\* e.affectsConfiguration('cliagent-mention.prefixString') (line 230)
prefixListenerFires(affected) == "prefixString" \in affected

\* e.affectsConfiguration('cliagent-mention.suffixString') (line 240)
suffixListenerFires(affected) == "suffixString" \in affected

\* e.affectsConfiguration('cliagent-mention.logLevel') (line 220)
logLevelListenerFires(affected) == "logLevel" \in affected

\* a change of the settings store and the three listeners it notifies
OnDidChangeConfiguration(affected, newConfig) ==
    /\ activated
    /\ \A k \in DOMAIN config : k \notin affected => newConfig[k] = config[k]
    /\ config' = newConfig
    /\ loggerLevel' = IF logLevelListenerFires(affected)
                      THEN updateLogLevel(newConfig.logLevel) ELSE loggerLevel
    /\ prefixString' = IF prefixListenerFires(affected)
                       THEN configGet(newConfig.prefixString, <<"@">>)
                       ELSE prefixString
    /\ suffixString' = IF suffixListenerFires(affected)
                       THEN configGet(newConfig.suffixString, <<":">>)
                       ELSE suffixString
    /\ channel' =
          (IF logLevelListenerFires(affected)
           THEN LoggerCall(loggerLevel', "info", Msg("Log level updated", <<>>))
           ELSE <<>>)
          \o (IF prefixListenerFires(affected)
              THEN LoggerCall(loggerLevel', "info",
                       Msg("Prefix string updated to: ", prefixString'))
              ELSE <<>>)
          \o (IF suffixListenerFires(affected)
              THEN LoggerCall(loggerLevel', "info",
                       Msg("Suffix string updated to: ", suffixString'))
              ELSE <<>>)
    /\ last' = [kind |-> "configuration", affected |-> affected]
    /\ popups' = <<>>
    /\ terminalInput' = <<>>
    /\ terminalShown' = <<>>
    /\ terminalsCreated' = <<>>
    /\ terminalCalls' = <<>>
    /\ UNCHANGED activated
    /\ UNCHANGED pathVars

\* ------------------------------------------------------------------------
\* The quick fix (codeActionProvider.ts)
\* ------------------------------------------------------------------------

\* vscode.DiagnosticSeverity
SeverityError == 0

SeverityWarning == 1

SeverityInformation == 2

SeverityHint == 3

getDiagnosticSeverityString(severity) ==
    CASE severity = SeverityError -> <<"E", "r", "r", "o", "r">>
      [] severity = SeverityWarning -> <<"W", "a", "r", "n", "i", "n", "g">>
      [] severity = SeverityInformation -> <<"I", "n", "f", "o", "r", "m", "a", "t", "i", "o", "n">>
      [] severity = SeverityHint -> <<"H", "i", "n", "t">>
      [] OTHER -> <<"U", "n", "k", "n", "o", "w", "n">>

\* the default of config.get<string>('quickFixPrompt', ...) (line 198)
DefaultQuickFixPrompt ==
    <<"A", "n", "a", "l", "y", "z", "e", " ", "t", "h", "i", "s", " ", "e", "r", "r", "o", "r", "/", "w", "a", "r", "n", "i", "n", "g", " ", "a", "n", "d", " ", "p", "r", "o", "v", "i", "d", "e", " ", "t", "o", " ", "s", "o", "l", "v", "e", " ", "i", "t", " ", "s", "o", "l", "u", "t", "i", "o", "n", ".">>

\* the name handed to createTerminal (line 135)
CreatedTerminal == [name |-> <<"C", "l", "a", "u", "d", "e", " ", "C", "o", "d", "e">>, disposed |-> FALSE]

\* the message of the Error terminal.sendText throws on a disposed terminal
DisposedMessage == <<"T", "e", "r", "m", "i", "n", "a", "l", " ", "h", "a", "s", " ", "a", "l", "r", "e", "a", "d", "y", " ", "b", "e", "e", "n", " ", "d", "i", "s", "p", "o", "s", "e", "d">>

\* vscode.workspace.asRelativePath(uri, false) for a file below the
\* workspace folder: the path after the folder and its separator
asRelativePath(fsPath, folder) ==
    SubSeq(fsPath, Len(folder) + 2, Len(fsPath))

\* mention of sendToTerminal (lines 180-188)
quickFixMention(filePath, diagnostic) ==
    <<"@">> \o filePath
        \o (IF diagnostic.start + 1 = diagnostic.end + 1
            THEN <<"#", "L">> \o numberToString(diagnostic.start + 1)
            ELSE <<"#", "L">> \o numberToString(diagnostic.start + 1)
                    \o <<"-">> \o numberToString(diagnostic.end + 1))

\* fullCommand of sendToTerminal with a trailing blank
fullCommand_trailingBlank(filePath, diagnostic, stored) ==
    configGet(stored, DefaultQuickFixPrompt) \o <<"\n", "\n">>
        \o quickFixMention(filePath, diagnostic) \o <<"\n">>
        \o getDiagnosticSeverityString(diagnostic.severity)
        \o <<":", " ">> \o diagnostic.message \o <<" ">>

\* fullCommand of sendToTerminal (lines 192-203); stored is the
\* quickFixPrompt setting, read from the store at each run
fullCommand(filePath, diagnostic, stored) ==
    configGet(stored, DefaultQuickFixPrompt) \o <<"\n", "\n">>
        \o quickFixMention(filePath, diagnostic) \o <<"\n">>
        \o getDiagnosticSeverityString(diagnostic.severity)
        \o <<":", " ">> \o diagnostic.message

\* terminal.sendText(fullCommand, true)
sendTextThenShow_submit(terminal, text) ==
    <<[op |-> "sendText", terminal |-> terminal, text |-> text,
       addNewLine |-> TRUE],
      [op |-> "show", terminal |-> terminal]>>

\* terminal.sendText(fullCommand, false); terminal.show() (lines 208-209)
sendTextThenShow(terminal, text) ==
    <<[op |-> "sendText", terminal |-> terminal, text |-> text,
       addNewLine |-> FALSE],
      [op |-> "show", terminal |-> terminal]>>

\* the log entries of sendToTerminal up to the sendText call
sendToTerminalLogs(filePath, diagnostic, level, stored) ==
    LoggerCall(level, "debug", Msg("sendToTerminal called", <<>>))
    \o LoggerCall(level, "debug", Msg("File path: ", filePath))
    \o LoggerCall(level, "debug",
           Msg("Diagnostic range: ", <<diagnostic.start, diagnostic.end>>))
    \o LoggerCall(level, "debug",
           Msg("Mention: ", quickFixMention(filePath, diagnostic)))
    \o LoggerCall(level, "info",
           Msg("Sending to terminal: ", fullCommand(filePath, diagnostic, stored)))

\* sendToTerminal: what it logged, sent and showed, and the message of the
\* error it threw (Undefined when it returned)
sendToTerminal(terminal, filePath, diagnostic, level, stored) ==
    IF terminal.disposed
    THEN [logs |-> sendToTerminalLogs(filePath, diagnostic, level, stored)
                   \o LoggerCall(level, "error",
                          Msg("Error in sendToTerminal: ", DisposedMessage)),
          sent |-> <<>>,
          shown |-> <<>>,
          calls |-> <<>>,
          thrown |-> DisposedMessage]
    ELSE [logs |-> sendToTerminalLogs(filePath, diagnostic, level, stored)
                   \o LoggerCall(level, "debug",
                          Msg("Text sent to terminal successfully", <<>>)),
          sent |-> <<[terminal |-> terminal,
                      text |-> fullCommand(filePath, diagnostic, stored),
                      addNewLine |-> FALSE]>>,
          shown |-> <<terminal>>,
          calls |-> sendTextThenShow(terminal,
                        fullCommand(filePath, diagnostic, stored)),
          thrown |-> Undefined]

\* the terminal handleAskClaudeCode uses (lines 132-136)
quickFixTerminal(activeTerminal) ==
    IF activeTerminal = NoTerminal THEN CreatedTerminal ELSE activeTerminal

\* filePath of handleAskClaudeCode (lines 143-151)
quickFixFilePath(document) ==
    IF document.workspaceFolder # Undefined
    THEN asRelativePath(document.fsPath, document.workspaceFolder)
    ELSE document.fsPath

\* the log entries of handleAskClaudeCode up to the sendToTerminal call
handleAskClaudeCodeLogs(document, diagnostic, activeTerminal, level) ==
    LoggerCall(level, "debug", Msg("handleAskClaudeCode called", <<>>))
    \o LoggerCall(level, "debug", Msg("Document: ", document.fsPath))
    \o LoggerCall(level, "debug", Msg("Diagnostic: ", diagnostic.message))
    \o (IF activeTerminal = NoTerminal
        THEN LoggerCall(level, "debug",
                 Msg("No active terminal, creating new one", <<>>))
        ELSE <<>>)
    \o LoggerCall(level, "debug",
           Msg("Using terminal: ", quickFixTerminal(activeTerminal).name))
    \o (IF document.workspaceFolder # Undefined
        THEN LoggerCall(level, "debug",
                 Msg("Using workspace relative path: ", quickFixFilePath(document)))
        ELSE LoggerCall(level, "warn",
                 Msg("No workspace folder, using absolute path: ",
                     quickFixFilePath(document))))

\* handleAskClaudeCode after sendToTerminal returned or threw r; the stack
\* of the error is logged as its first line, the message
handleAskClaudeCodeWith(document, diagnostic, activeTerminal, level, r) ==
    [logs |-> handleAskClaudeCodeLogs(document, diagnostic, activeTerminal, level)
              \o r.logs
              \o (IF r.thrown = Undefined
                  THEN LoggerCall(level, "debug",
                           Msg("Successfully sent to terminal", <<>>))
                  ELSE LoggerCall(level, "error",
                           Msg("Failed to send to terminal: ", r.thrown))
                       \o LoggerCall(level, "error",
                           Msg("Stack trace: ", r.thrown))),
     sent |-> r.sent,
     shown |-> r.shown,
     calls |-> r.calls,
     created |-> IF activeTerminal = NoTerminal THEN <<CreatedTerminal>> ELSE <<>>,
     popups |-> IF r.thrown = Undefined THEN <<>>
                ELSE <<Popup("error", "Failed to send diagnostic to Claude Code: ",
                             r.thrown)>>]

\* the terminal handleAskClaudeCode created without the active-terminal test
handleAskClaudeCode_alwaysCreate(document, diagnostic, activeTerminal, level, stored) ==
    handleAskClaudeCodeWith(document, diagnostic, NoTerminal, level,
        sendToTerminal(CreatedTerminal, quickFixFilePath(document),
                       diagnostic, level, stored))

handleAskClaudeCode(document, diagnostic, activeTerminal, level, stored) ==
    handleAskClaudeCodeWith(document, diagnostic, activeTerminal, level,
        sendToTerminal(quickFixTerminal(activeTerminal),
                       quickFixFilePath(document), diagnostic, level, stored))

\* diag.range.contains(position), ranges and positions taken by line
rangeContains(diagnostic, position) ==
    diagnostic.start <= position /\ position <= diagnostic.end

\* diagnostics.find(diag => diag.range.contains(position)): the index of the
\* first match, 0 when there is none
diagnosticAtCursor(diagnostics, position) ==
    IF \E i \in 1..Len(diagnostics) : rangeContains(diagnostics[i], position)
    THEN CHOOSE i \in 1..Len(diagnostics) :
             /\ rangeContains(diagnostics[i], position)
             /\ \A j \in 1..(i - 1) : ~rangeContains(diagnostics[j], position)
    ELSE 0

\* handleAskClaudeCodeCommand once a diagnostic was found
handleAskClaudeCodeFound(document, diagnostic, activeTerminal, level, stored) ==
    [handleAskClaudeCode(document, diagnostic, activeTerminal, level, stored)
        EXCEPT !.logs =
            LoggerCall(level, "debug",
                Msg("handleAskClaudeCodeCommand called from command palette", <<>>))
            \o LoggerCall(level, "debug",
                Msg("Found diagnostic at cursor: ", diagnostic.message))
            \o @]

handleAskClaudeCodeCommand(editor, activeTerminal, level, stored) ==
    IF editor = NoEditor
    THEN [logs |-> LoggerCall(level, "debug",
                       Msg("handleAskClaudeCodeCommand called from command palette", <<>>)),
          sent |-> <<>>, shown |-> <<>>, calls |-> <<>>, created |-> <<>>,
          popups |-> <<Popup("warning", "No active editor", <<>>)>>]
    ELSE IF diagnosticAtCursor(editor.diagnostics, editor.active) = 0
    THEN [logs |-> LoggerCall(level, "debug",
                       Msg("handleAskClaudeCodeCommand called from command palette", <<>>))
                   \o LoggerCall(level, "warn",
                       Msg("No diagnostic at cursor position", <<>>)),
          sent |-> <<>>, shown |-> <<>>, calls |-> <<>>, created |-> <<>>,
          popups |-> <<Popup("warning",
                             "No diagnostic found at current cursor position", <<>>)>>]
    ELSE handleAskClaudeCodeFound(editor.document,
             editor.diagnostics[diagnosticAtCursor(editor.diagnostics, editor.active)],
             activeTerminal, level, stored)

\* the effects of a run that also puts the fixed '@' and '#L' of the quick
\* fix into the prefix and suffix strings
askClaudeCodeEffects_setsStrings(r) ==
    /\ channel' = r.logs
    /\ popups' = r.popups
    /\ terminalInput' = r.sent
    /\ terminalShown' = r.shown
    /\ terminalsCreated' = r.created
    /\ terminalCalls' = r.calls
    /\ prefixString' = <<"@">>
    /\ suffixString' = <<"#", "L">>
    /\ UNCHANGED <<activated, config, loggerLevel>>
    /\ UNCHANGED pathVars

\* the effects r of a run of the askClaudeCode command on the window
askClaudeCodeEffects(r) ==
    /\ channel' = r.logs
    /\ popups' = r.popups
    /\ terminalInput' = r.sent
    /\ terminalShown' = r.shown
    /\ terminalsCreated' = r.created
    /\ terminalCalls' = r.calls
    /\ UNCHANGED <<activated, config, prefixString, suffixString, loggerLevel>>
    /\ UNCHANGED pathVars

\* the askClaudeCode command called by the Quick Fix with a document and a
\* diagnostic (extension.ts lines 267-272)
askClaudeCodeQuickFix(document, diagnostic, activeTerminal, stored) ==
    /\ activated
    /\ last' = [kind |-> "quickfix", document |-> document,
                diagnostic |-> diagnostic, terminal |-> activeTerminal,
                quickFixPrompt |-> stored]
    /\ askClaudeCodeEffects(
           [handleAskClaudeCode(document, diagnostic, activeTerminal,
                                loggerLevel, stored)
               EXCEPT !.logs = LoggerCall(loggerLevel, "debug",
                                   Msg("Command called from Quick Fix", <<>>)) \o @])

\* the askClaudeCode command called without arguments (lines 273-277)
askClaudeCodePalette(editor, activeTerminal, stored) ==
    /\ activated
    /\ last' = [kind |-> "palette", editor |-> editor,
                terminal |-> activeTerminal, quickFixPrompt |-> stored]
    /\ askClaudeCodeEffects(
           [handleAskClaudeCodeCommand(editor, activeTerminal, loggerLevel, stored)
               EXCEPT !.logs = LoggerCall(loggerLevel, "debug",
                                   Msg("Command called from Command Palette", <<>>)) \o @])

\* ------------------------------------------------------------------------
\* The running extension
\* ------------------------------------------------------------------------

\* how many lines after line 9 (0-based 8) a selection may touch
LineSpan == 1

\* 0-based editor lines, shown 1-based with one digit and with two
EditorLines == 8 .. (8 + LineSpan)

\* editor.selection: start <= end, and an empty selection is a cursor
Selections ==
    {[start |-> pr[1], end |-> pr[2], isEmpty |-> FALSE] :
        pr \in {q \in EditorLines \X EditorLines : q[1] <= q[2]}}
    \cup {[start |-> a, end |-> a, isEmpty |-> TRUE] : a \in EditorLines}

Terminals ==
    {NoTerminal} \cup {[cwd |-> c] : c \in TerminalCwds \cup {Undefined}}

Editors ==
    {NoEditor} \cup {[uri |-> f, selection |-> sel] : f \in EditorFiles, sel \in Selections}

MentionModes == {"codex", "claudecode", "custom"}

LogLevelSettings ==
    {Undefined, <<"o", "f", "f">>, <<"t", "r", "a", "c", "e">>, <<"d", "e", "b", "u", "g">>, <<"i", "n", "f", "o">>, <<"w", "a", "r", "n">>, <<"e", "r", "r", "o", "r">>, <<"F", "a", "t", "a", "l">>}

PrefixSettings == {Undefined, <<"#">>}

SuffixSettings == {Undefined, <<"#", "L">>}

Configs == [logLevel : LogLevelSettings, prefixString : PrefixSettings,
            suffixString : SuffixSettings]

Init ==
    /\ ClassifyIdle
    /\ fromPath = Undefined
    /\ toPath = Undefined
    /\ relResult = NotCalled
    /\ host \in Hosts
    /\ activated = FALSE
    /\ config \in Configs
    /\ prefixString = <<"@">>
    /\ suffixString = <<":">>
    /\ loggerLevel = LogLevelInfo
    /\ last = NoRun
    /\ channel = <<>>
    /\ popups = <<>>
    /\ terminalInput = <<>>
    /\ terminalShown = <<>>
    /\ terminalsCreated = <<>>
    /\ terminalCalls = <<>>

\* vscode.window.activeTerminal for the quick fix: none, a live terminal, or
\* one whose dispose() was called while it is still the active terminal
QuickFixTerminals ==
    {NoTerminal} \cup {[name |-> <<"b", "a", "s", "h">>, disposed |-> d] : d \in BOOLEAN}

\* a document inside a workspace folder and one outside every folder
Documents ==
    {[fsPath |-> <<"/", "a", "/", "c", ".", "j", "s">>, workspaceFolder |-> w] :
        w \in {<<"/", "a">>, Undefined}}

Diagnostic(start, end, severity, message) ==
    [start |-> start, end |-> end, severity |-> severity, message |-> message]

\* the diagnostics the Quick Fix is called with: on one line and over two
\* lines, shown with one digit and with two
Diagnostics ==
    {Diagnostic(8, 8, SeverityError, <<"e", ":", " ", "1">>),
     Diagnostic(8, 9, SeverityWarning, <<"w">>),
     Diagnostic(9, 10, SeverityHint, <<"h">>)}

\* what languages.getDiagnostics returns for the document when no
\* diagnostic contains the cursor (line 9): nothing, or one diagnostic on
\* another line
DiagnosticListsAway ==
    {<<>>, <<Diagnostic(9, 9, SeverityInformation, <<"i">>)>>}

\* and when the second of two diagnostics, or both, contain the cursor
DiagnosticListsAtCursor ==
    {<<Diagnostic(9, 9, SeverityInformation, <<"i">>),
       Diagnostic(7, 8, SeverityInformation, <<"j">>)>>,
     <<Diagnostic(8, 8, SeverityError, <<"e", ":", " ", "1">>),
       Diagnostic(8, 9, SeverityWarning, <<"w">>)>>}

\* the active editor of a command palette run, its cursor on line 9
PaletteEditor(diagnostics) ==
    [document |-> [fsPath |-> <<"/", "a", "/", "c", ".", "j", "s">>,
                   workspaceFolder |-> <<"/", "a">>],
     active |-> 8, diagnostics |-> diagnostics]

\* the stored quickFixPrompt setting
QuickFixPromptSettings == {Undefined, <<"F", "i", "x">>}

MentionCommand ==
    \E mode \in MentionModes, editor \in Editors, terminal \in Terminals :
        setMentionStrings(mode, editor, terminal)

ConfigurationChange ==
    \E affected \in SUBSET ListenedKeys, newConfig \in Configs :
        OnDidChangeConfiguration(affected, newConfig)

QuickFixCommand ==
    \E document \in Documents, diagnostic \in Diagnostics,
       activeTerminal \in QuickFixTerminals, stored \in QuickFixPromptSettings :
        askClaudeCodeQuickFix(document, diagnostic, activeTerminal, stored)

\* a run that finds no editor or no diagnostic at the cursor reads neither
\* the active terminal nor the prompt
PaletteCommand ==
    \/ askClaudeCodePalette(NoEditor, NoTerminal, Undefined)
    \/ \E diagnostics \in DiagnosticListsAway :
           askClaudeCodePalette(PaletteEditor(diagnostics), NoTerminal, Undefined)
    \/ \E diagnostics \in DiagnosticListsAtCursor,
          activeTerminal \in QuickFixTerminals, stored \in QuickFixPromptSettings :
           askClaudeCodePalette(PaletteEditor(diagnostics), activeTerminal, stored)

Next ==
    \/ Activate
    \/ ConfigurationChange
    \/ MentionCommand
    \/ QuickFixCommand
    \/ PaletteCommand

Spec == Init /\ [][Next]_vars

\* ------------------------------------------------------------------------
\* Vocabulary of the properties of the mention commands
\* ------------------------------------------------------------------------

\* the latest handler run was a mention command and it sent its text
MentionSent == last.kind = "mention" /\ terminalInput # <<>>

\* the text of that send
SentText == terminalInput[1].text

\* the relative path from the terminal's directory to the file of that run
SentPath == toRelative(last.terminal.cwd, last.editor.uri, host)

\* the 1-based first and last line of the selection of that run
SentStart == last.editor.selection.start + 1

SentEnd == last.editor.selection.end + 1

\* what the text holds between prefix + relative path and its last character
SentSuffix ==
    SubSeq(SentText, Len(prefixString) + Len(SentPath) + 1, Len(SentText) - 1)

DigitChars == {"0", "1", "2", "3", "4", "5", "6", "7", "8", "9"}

DigitValue(c) ==
    CASE c = "0" -> 0 [] c = "1" -> 1 [] c = "2" -> 2 [] c = "3" -> 3
      [] c = "4" -> 4 [] c = "5" -> 5 [] c = "6" -> 6 [] c = "7" -> 7
      [] c = "8" -> 8 [] c = "9" -> 9

RECURSIVE DecimalValue(_)
DecimalValue(d) ==
    IF d = <<>> THEN 0
    ELSE 10 * DecimalValue(SubSeq(d, 1, Len(d) - 1)) + DigitValue(d[Len(d)])

\* d is the decimal numeral of n: digits only, no leading zero
IsNumeralOf(d, n) ==
    /\ d # <<>>
    /\ \A k \in 1..Len(d) : d[k] \in DigitChars
    /\ (Len(d) > 1 => d[1] # "0")
    /\ DecimalValue(d) = n

\* r is 'start' when the two lines are equal and 'start-end' otherwise
IsLineRange(r, start, end) ==
    IF start = end THEN IsNumeralOf(r, start)
    ELSE \E k \in 1..Len(r) :
            /\ r[k] = "-"
            /\ IsNumeralOf(SubSeq(r, 1, k - 1), start)
            /\ IsNumeralOf(SubSeq(r, k + 1, Len(r)), end)

\* sfx is the marker followed by the line range
IsLineSuffix(sfx, marker, start, end) ==
    /\ StartsWith(sfx, marker)
    /\ IsLineRange(SubSeq(sfx, Len(marker) + 1, Len(sfx)), start, end)

\* the marker of a mode, given the configured suffix string
MarkerOf(mode, configured) ==
    CASE mode = "claudecode" -> <<"#", "L">>
      [] mode = "codex" -> <<":">>
      [] mode = "custom" -> configured

\* ------------------------------------------------------------------------
\* C8
\* ------------------------------------------------------------------------

\* C8: in all three modes the text a mention command sends is the configured
\* prefix, the relative path, the line suffix and one space; the line suffix
\* is there iff the selection is not empty, so without a selection the text
\* is prefix + relative path + ' ' and holds no marker.
C8_MentionText ==
    MentionSent =>
        /\ StartsWith(SentText, prefixString \o SentPath)
        /\ Len(SentText) > Len(prefixString \o SentPath)
        /\ SentText[Len(SentText)] = " "
        /\ (last.editor.selection.isEmpty <=> SentSuffix = <<>>)
        /\ (~last.editor.selection.isEmpty =>
                IsLineSuffix(SentSuffix, MarkerOf(last.mode, suffixString),
                             SentStart, SentEnd))

\* a mention without a selection, sent with a configured prefix
C8_Witness ==
    /\ MentionSent
    /\ last.editor.selection.isEmpty
    /\ prefixString = <<"#">>
    /\ SentText = <<"#">> \o SentPath \o <<" ">>

\* ------------------------------------------------------------------------
\* C9
\* ------------------------------------------------------------------------

\* C9: for a selection of 1-based lines (start, end) the line suffix is
\* marker + start when start = end and marker + start + '-' + end otherwise;
\* the marker is '#L' in ClaudeCode mode, ':' in Codex mode and the configured
\* suffix string in Custom mode, and the configured suffix string has no
\* part in the ClaudeCode and Codex output.
C9_LineSuffix ==
    (MentionSent /\ ~last.editor.selection.isEmpty) =>
        /\ last.mode = "claudecode" =>
              IsLineSuffix(SentSuffix, <<"#", "L">>, SentStart, SentEnd)
        /\ last.mode = "codex" =>
              IsLineSuffix(SentSuffix, <<":">>, SentStart, SentEnd)
        /\ last.mode = "custom" =>
              IsLineSuffix(SentSuffix, suffixString, SentStart, SentEnd)
        /\ (SentStart = SentEnd <=> \A k \in 1..Len(SentSuffix) : SentSuffix[k] # "-")

\* a Codex mention of lines 9 to 10 while the configured suffix is '#L'
C9_Witness ==
    /\ MentionSent
    /\ ~last.editor.selection.isEmpty
    /\ last.mode = "codex"
    /\ suffixString = <<"#", "L">>
    /\ SentStart = 9
    /\ SentEnd = 10
    /\ SentSuffix = <<":", "9", "-", "1", "0">>

\* ------------------------------------------------------------------------
\* C10
\* ------------------------------------------------------------------------

\* the value a setting has in the store, the store changing a key only in a
\* change that affects it: what the most recent change affecting the key
\* set, or what activation loaded, with the default for an unset key
SettingOf(key, defaultValue) ==
    IF config[key] = Undefined THEN defaultValue ELSE config[key]

\* C10: once activated, whatever configuration changes and mention commands
\* came before, a mention command uses the prefix (and in Custom mode the
\* suffix) of the most recent configuration change that affected the key,
\* or the value activation loaded (defaults '@' and ':'); never a stale one.
C10_NoStaleStrings ==
    MentionSent =>
        /\ StartsWith(SentText, SettingOf("prefixString", <<"@">>) \o SentPath)
        /\ (last.mode = "custom" /\ ~last.editor.selection.isEmpty) =>
              StartsWith(SubSeq(SentText,
                                Len(SettingOf("prefixString", <<"@">>)) + Len(SentPath) + 1,
                                Len(SentText)),
                         SettingOf("suffixString", <<":">>))

\* a Custom mention sent while the store holds '#' and '#L'
C10_Witness ==
    /\ MentionSent
    /\ last.mode = "custom"
    /\ ~last.editor.selection.isEmpty
    /\ config.prefixString = <<"#">>
    /\ config.suffixString = <<"#", "L">>
    /\ StartsWith(SentText, <<"#">> \o SentPath \o <<"#", "L">>)

\* ------------------------------------------------------------------------
\* Vocabulary of the properties of the quick fix
\* ------------------------------------------------------------------------

\* the latest handler run was the askClaudeCode command
QuickFixRun == last.kind \in {"quickfix", "palette"}

\* and it sent its text
QuickFixSent == QuickFixRun /\ terminalInput # <<>>

\* the document that run was about
RunDocument ==
    IF last.kind = "quickfix" THEN last.document ELSE last.editor.document

\* some diagnostic of the palette run's editor contains the cursor
CursorOnDiagnostic ==
    \E i \in 1..Len(last.editor.diagnostics) :
        /\ last.editor.diagnostics[i].start <= last.editor.active
        /\ last.editor.active <= last.editor.diagnostics[i].end

\* the diagnostic that run was about: the one handed in, or the first of
\* the editor's diagnostics whose lines hold the cursor
RunDiagnostic ==
    IF last.kind = "quickfix" THEN last.diagnostic
    ELSE last.editor.diagnostics[
             CHOOSE i \in 1..Len(last.editor.diagnostics) :
                 /\ last.editor.diagnostics[i].start <= last.editor.active
                 /\ last.editor.active <= last.editor.diagnostics[i].end
                 /\ \A j \in 1..(i - 1) :
                       \/ last.editor.active < last.editor.diagnostics[j].start
                       \/ last.editor.diagnostics[j].end < last.editor.active]

\* the path of that document: below its workspace folder when it has one,
\* absolute otherwise
RunFilePath ==
    IF RunDocument.workspaceFolder = Undefined THEN RunDocument.fsPath
    ELSE CHOOSE p \in {SubSeq(RunDocument.fsPath, k, Len(RunDocument.fsPath)) :
                          k \in 1..(Len(RunDocument.fsPath) + 1)} :
             RunDocument.workspaceFolder \o <<"/">> \o p = RunDocument.fsPath

\* the prompt of that run: the stored setting, or the default
RunPrompt ==
    IF last.quickFixPrompt = Undefined
    THEN <<"A", "n", "a", "l", "y", "z", "e", " ", "t", "h", "i", "s", " ", "e", "r", "r", "o", "r", "/", "w", "a", "r", "n", "i", "n", "g", " ", "a", "n", "d", " ", "p", "r", "o", "v", "i", "d", "e", " ", "t", "o", " ", "s", "o", "l", "v", "e", " ", "i", "t", " ", "s", "o", "l", "u", "t", "i", "o", "n", ".">>
    ELSE last.quickFixPrompt

\* the name of a severity
SeverityName(severity) ==
    CASE severity = 0 -> <<"E", "r", "r", "o", "r">>
      [] severity = 1 -> <<"W", "a", "r", "n", "i", "n", "g">>
      [] severity = 2 -> <<"I", "n", "f", "o", "r", "m", "a", "t", "i", "o", "n">>
      [] severity = 3 -> <<"H", "i", "n", "t">>

\* what the quick-fix text holds before the line range and after it
QuickFixHead == RunPrompt \o <<"\n", "\n", "@">> \o RunFilePath \o <<"#", "L">>

QuickFixTail ==
    <<"\n">> \o SeverityName(RunDiagnostic.severity) \o <<":", " ">>
        \o RunDiagnostic.message

\* ------------------------------------------------------------------------
\* C11
\* ------------------------------------------------------------------------

\* C11: for a diagnostic with 0-based lines (s, e) the quick-fix text is
\* exactly prompt + two newlines + '@' + file path + '#L' + (s+1)
\* [+ '-' + (e+1) when s differs from e] + newline + severity name + ': ' +
\* message, with nothing after the message; the '@' and the '#L' are fixed,
\* whatever the configured prefix and suffix strings are.
C11_QuickFixText ==
    QuickFixSent =>
        /\ Len(terminalInput) = 1
        /\ Len(terminalInput[1].text) > Len(QuickFixHead) + Len(QuickFixTail)
        /\ StartsWith(terminalInput[1].text, QuickFixHead)
        /\ SubSeq(terminalInput[1].text,
                  Len(terminalInput[1].text) - Len(QuickFixTail) + 1,
                  Len(terminalInput[1].text)) = QuickFixTail
        /\ IsLineRange(SubSeq(terminalInput[1].text, Len(QuickFixHead) + 1,
                              Len(terminalInput[1].text) - Len(QuickFixTail)),
                       RunDiagnostic.start + 1, RunDiagnostic.end + 1)

\* a warning on lines 9 to 10 sent with a stored prompt while the configured
\* prefix and suffix are '#' and '#L'
C11_Witness ==
    /\ QuickFixSent
    /\ prefixString = <<"#">>
    /\ suffixString = <<"#", "L">>
    /\ terminalInput[1].text = <<"F", "i", "x", "\n", "\n", "@", "c", ".", "j", "s", "#", "L", "9", "-", "1", "0", "\n", "W", "a", "r", "n", "i", "n", "g", ":", " ", "w">>

\* ------------------------------------------------------------------------
\* C12
\* ------------------------------------------------------------------------

\* the latest handler run was a mention command that had no active
\* terminal, no active editor, or no working directory of the terminal
MentionUnavailable ==
    /\ last.kind = "mention"
    /\ \/ last.terminal = NoTerminal
       \/ last.editor = NoEditor
       \/ last.terminal.cwd = Undefined

\* C12: a mention command that finds the active terminal, the active editor
\* or the terminal's working directory unavailable sends no text, focuses
\* no terminal, and emits an explanation to the user (an entry in the output
\* channel or a popup), at every configured log level.
C12_UnavailableExplained ==
    MentionUnavailable =>
        /\ terminalInput = <<>>
        /\ terminalShown = <<>>
        /\ terminalsCreated = <<>>
        /\ (channel # <<>> \/ popups # <<>>)

\* ------------------------------------------------------------------------
\* C13
\* ------------------------------------------------------------------------

\* the sendText calls among the terminal calls of the latest run
SendTextCalls ==
    {i \in 1..Len(terminalCalls) : terminalCalls[i].op = "sendText"}

\* C13: whatever the extension sends to a terminal, in a mention command or
\* in the quick fix, is inserted without being submitted: every sendText is
\* made with the 'add newline' flag false, and the next call after it is
\* show() on the same terminal.
C13_InsertedNotSubmitted ==
    /\ Len(terminalInput) = Cardinality(SendTextCalls)
    /\ \A i \in 1..Len(terminalInput) : terminalInput[i].addNewLine = FALSE
    /\ \A i \in SendTextCalls :
          /\ terminalCalls[i].addNewLine = FALSE
          /\ i < Len(terminalCalls)
          /\ terminalCalls[i + 1].op = "show"
          /\ terminalCalls[i + 1].terminal = terminalCalls[i].terminal

\* the Quick Fix sent its text to the terminal it had created and then
\* showed that terminal
C13_Witness ==
    /\ last.kind = "quickfix"
    /\ Len(terminalCalls) = 2
    /\ terminalCalls[1].op = "sendText"
    /\ terminalCalls[1].addNewLine = FALSE
    /\ terminalCalls[1].terminal \notin QuickFixTerminals
    /\ terminalCalls[2] = [op |-> "show", terminal |-> terminalCalls[1].terminal]

\* ------------------------------------------------------------------------
\* C14
\* ------------------------------------------------------------------------

\* C14: for every path classified NativeWindows, the output of
\* windowsToWslPath is classified WslMount, never NativeWindows or
\* NativePosix, also when nothing follows the separator ('C:\', 'c:/').
C14_ConvertedIsWslMount ==
    (wslOut # NotCalled /\ classify(arg) = "NativeWindows") =>
        /\ classify(wslOut) = "WslMount"
        /\ isWslMountPath(wslOut)
        /\ ~isWindowsPath(wslOut)

\* 'C:\' was converted, to '/mnt/c/'
C14_Witness ==
    /\ arg = <<"C", ":", BSL>>
    /\ wslOut = <<"/", "m", "n", "t", "/", "c", "/">>

\* ------------------------------------------------------------------------
\* C15
\* ------------------------------------------------------------------------

\* a step of a mention command or of the askClaudeCode command
CommandStep == last'.kind \in {"mention", "quickfix", "palette"}

\* a step of the configuration listeners that does not affect key
ChangeNotAffecting(key) ==
    last'.kind = "configuration" /\ key \notin last'.affected

\* what C15 asks of one step
C15_Step ==
    /\ CommandStep => UNCHANGED <<prefixString, suffixString>>
    /\ ChangeNotAffecting("prefixString") => UNCHANGED prefixString
    /\ ChangeNotAffecting("suffixString") => UNCHANGED suffixString
    /\ (prefixString' # prefixString \/ suffixString' # suffixString) =>
          last'.kind \in {"activate", "configuration"}

\* C15: the prefix and suffix strings change only in activation and in the
\* configuration listeners: a mention command, a quick-fix command and a
\* log-level change leave both unchanged, a change affecting only the prefix
\* key leaves the suffix unchanged, and one affecting only the suffix key
\* leaves the prefix unchanged.
C15_StringsFrame == [][C15_Step]_vars

\* a change notification affecting only the prefix key was handled while
\* both strings were configured
C15_Witness ==
    /\ last.kind = "configuration"
    /\ last.affected = {"prefixString"}
    /\ prefixString = <<"#">>
    /\ suffixString = <<"#", "L">>

\* ------------------------------------------------------------------------
\* C16
\* ------------------------------------------------------------------------

\* the latest handler run was a mention command that had an active
\* terminal with a working directory and an active editor
MentionAvailable ==
    /\ last.kind = "mention"
    /\ last.terminal # NoTerminal
    /\ last.editor # NoEditor
    /\ last.terminal.cwd # Undefined

\* C16 as claimed: a mention command that has an active terminal, an active
\* editor and the terminal's working directory sends exactly one text, for
\* every pair of working directory and file, the pair with the file equal
\* to the working directory included.
C16_AlwaysSends ==
    MentionAvailable =>
        /\ Len(terminalInput) = 1
        /\ terminalInput[1].terminal = last.terminal

\* C16 (amended): such a mention command sends exactly one text, to the
\* active terminal, for every pair of working directory and file whose
\* relative path is not empty; when the relative path is the empty string
\* (the file is the working directory) it sends nothing and focuses no
\* terminal.
C16_SendsUnlessEmpty ==
    MentionAvailable =>
        IF SentPath = <<>>
        THEN /\ terminalInput = <<>>
             /\ terminalCalls = <<>>
             /\ terminalShown = <<>>
        ELSE /\ Len(terminalInput) = 1
             /\ terminalInput[1].terminal = last.terminal
             /\ Len(terminalCalls) = 2
             /\ terminalShown = <<last.terminal>>

\* a mention of the file that is the terminal's working directory sent
\* nothing and logged the warning
C16_Witness ==
    /\ MentionAvailable
    /\ last.editor.uri = last.terminal.cwd
    /\ last.relativePath = <<>>
    /\ terminalInput = <<>>
    /\ channel # <<>>
    /\ channel[Len(channel)].method = "warn"

\* ------------------------------------------------------------------------
\* C17
\* ------------------------------------------------------------------------

\* from is a WslMount path and to a NativeWindows path on the same drive,
\* the letters compared ignoring case
WslAndWindowsSameDrive ==
    /\ RelativeCalled
    /\ StartsWithMnt(fromPath)
    /\ StartsWithDrive(toPath)
    /\ SameLetter(fromPath[6], toPath[1])

\* the '..' segments of the result
ClimbingSegments ==
    {j \in 1..Len(Segments(relResult, {SL})) :
        Segments(relResult, {SL})[j] = <<".", ".">>}

\* C17: with from a WslMount path and to a NativeWindows path on the same
\* drive letter compared case-insensitively, the result stays inside the
\* drive: it has no more '..' segments than from has segments below
\* '/mnt/<drive>', and no segment that is the drive letter.
C17_StaysInsideDrive ==
    WslAndWindowsSameDrive =>
        /\ Cardinality(ClimbingSegments) <= Len(Segments(fromPath, {SL})) - 2
        /\ \A j \in 1..Len(Segments(relResult, {SL})) :
              ~(/\ Len(Segments(relResult, {SL})[j]) = 1
                /\ SameLetter(Segments(relResult, {SL})[j][1], toPath[1]))

\* ------------------------------------------------------------------------
\* C18
\* ------------------------------------------------------------------------

\* the severity of the messages of a Logger method, on the scale of the
\* levels (Trace 1 ... Error 5)
SeverityOf(method) ==
    CASE method = "trace" -> 1
      [] method = "debug" -> 2
      [] method = "info" -> 3
      [] method = "warn" -> 4
      [] method = "error" -> 5

\* a message of that severity is to be forwarded at the current level
ToBeForwarded(severity) ==
    loggerLevel # LogLevelOff /\ loggerLevel <= severity

\* C18: the Logger forwards a message of severity S to the output channel
\* iff the configured level is not Off and is at or below S: every entry of
\* the channel was to be forwarded, the info message of activation is in
\* the channel iff it was to be forwarded, and with the level Off nothing
\* is forwarded and a mention command shows no popup of its text.
C18_ForwardsIffEnabled ==
    /\ \A i \in 1..Len(channel) : ToBeForwarded(SeverityOf(channel[i].method))
    /\ last.kind = "activate" => (channel # <<>> <=> ToBeForwarded(3))
    /\ loggerLevel = LogLevelOff => (channel = <<>> /\ popups = <<>>)

\* ------------------------------------------------------------------------
\* C19
\* ------------------------------------------------------------------------

\* the error messages the latest run showed
ErrorPopups == {i \in 1..Len(popups) : popups[i].kind = "error"}

\* the warnings the latest run showed
WarningPopups == {i \in 1..Len(popups) : popups[i].kind = "warning"}

\* the run sent one text, to the active terminal when there was one and
\* otherwise to the one terminal it created, named 'Claude Code'
SentToActiveOrCreated ==
    /\ Len(terminalInput) = 1
    /\ IF last.terminal # NoTerminal
       THEN /\ terminalInput[1].terminal = last.terminal
            /\ terminalsCreated = <<>>
       ELSE /\ Len(terminalsCreated) = 1
            /\ terminalsCreated[1].name = <<"C", "l", "a", "u", "d", "e", " ", "C", "o", "d", "e">>
            /\ terminalInput[1].terminal = terminalsCreated[1]

\* C19: the quick-fix command called with a document and a diagnostic ends
\* by sending exactly one text to exactly one terminal or by showing an
\* error message, never silently with nothing; it sends to the active
\* terminal when one exists and otherwise to a terminal it creates, named
\* 'Claude Code'. Called without arguments it sends only if some
\* diagnostic's range contains the cursor, and otherwise shows a warning and
\* sends nothing.
C19_QuickFixOutcome ==
    /\ last.kind = "quickfix" =>
          /\ terminalInput # <<>> \/ ErrorPopups # {}
          /\ terminalInput # <<>> => SentToActiveOrCreated
          /\ terminalInput = <<>> => terminalCalls = <<>>
    /\ last.kind = "palette" =>
          /\ terminalInput # <<>> =>
                /\ last.editor # NoEditor
                /\ CursorOnDiagnostic
                /\ SentToActiveOrCreated
          /\ (last.editor = NoEditor \/ ~CursorOnDiagnostic) =>
                /\ terminalInput = <<>>
                /\ terminalCalls = <<>>
                /\ terminalsCreated = <<>>
                /\ WarningPopups # {}

\* the Quick Fix ran without an active terminal, created 'Claude Code' and
\* sent its text there
C19_Witness ==
    /\ last.kind = "quickfix"
    /\ last.terminal = NoTerminal
    /\ SentToActiveOrCreated
    /\ terminalShown = terminalsCreated
    /\ popups = <<>>

====
